---- MODULE Spec2Model ----
(***************************************************************************)
(* A model of server.py: a socketserver.TCPServer on PORT whose Handler is *)
(* http.server.SimpleHTTPRequestHandler rooted at DIRECTORY, with          *)
(* end_headers overridden to add three CORS headers.                       *)
(*                                                                         *)
(* The handler is modelled method by method (handle_one_request,           *)
(* parse_request, send_error, send_head, translate_path, ...): these are   *)
(* the methods Handler inherits at server.py line 14 and the ones that     *)
(* call the overridden end_headers of lines 18-23.  main's position is the *)
(* variable pc.                                                            *)
(***************************************************************************)
EXTENDS Integers, Sequences, FiniteSets, TLC

\* ------------------------------------------------------------------ bounds

\* Connections that arrive during one run of the server.
MaxConns == 2
\* Connections the kernel holds in the listen queue before accept.
MaxBacklog == 1

\* ------------------------------------------------------- configuration

PORT == 8000
\* os.path.dirname(os.path.abspath(__file__)): an absolute path, here /site.
DIRECTORY == <<"site">>

\* ----------------------------------------------------------- file system
\* A file system maps an absolute path (the sequence of its components) to
\* the kind of node there.  A file's contents are identified by the file's
\* own absolute path, so two different files never have the same bytes.

FsOf(rootIndex, subIndex, aKind) ==
    [p \in ({<<>>, <<"secret.txt">>, DIRECTORY,
             DIRECTORY \o <<"a.txt">>,
             DIRECTORY \o <<"sub">>}
            \cup (IF rootIndex = "none" THEN {}
                  ELSE {DIRECTORY \o <<"index.html">>})
            \cup (IF subIndex = "none" THEN {}
                  ELSE {DIRECTORY \o <<"sub", subIndex>>}))
     |-> IF p \in {<<>>, DIRECTORY, DIRECTORY \o <<"sub">>} THEN "dir"
         ELSE IF p = DIRECTORY \o <<"a.txt">> THEN aKind
         ELSE IF p = DIRECTORY \o <<"index.html">> THEN rootIndex
         ELSE "file"]

FileSystems ==
    { FsOf(r, s, a) : r \in {"none", "file"},
                      s \in {"none", "index.html", "index.htm"},
                      a \in {"file", "unreadable"} }

\* The kernel's resolution of a path: "." and "" are skipped, ".." goes to
\* the parent, and the parent of "/" is "/".
RECURSIVE OsResolve(_, _)
OsResolve(done, rest) ==
    IF rest = <<>> THEN done
    ELSE LET w == Head(rest) IN
         IF w \in {"", "."} THEN OsResolve(done, Tail(rest))
         ELSE IF w = ".."
              THEN OsResolve(IF done = <<>> THEN <<>>
                             ELSE SubSeq(done, 1, Len(done) - 1), Tail(rest))
              ELSE OsResolve(Append(done, w), Tail(rest))

KindAt(f, path) ==
    LET p == OsResolve(<<>>, path) IN
    IF p \in DOMAIN f THEN f[p] ELSE "absent"

\* os.path.isdir, os.path.isfile (true of an unreadable file too), open(.., 'rb')
isdir(f, path) == KindAt(f, path) = "dir"
isfile(f, path) == KindAt(f, path) \in {"file", "unreadable"}
CanOpen(f, path) == KindAt(f, path) = "file"
\* The bytes of the file open() returned: the identity of the file read.
Contents(path) == OsResolve(<<>>, path)

IsPrefix(s, t) == Len(s) <= Len(t) /\ SubSeq(t, 1, Len(s)) = s

\* ---------------------------------------------------------------- requests
\* A request line is: method, target, optional extra word, optional version.
\* A target is the sequence of its "/"-separated segments as sent (possibly
\* percent-encoded) and whether it ends in "/".

Methods == {"GET", "HEAD", "POST", "OPTIONS"}

SegLists ==
    { <<>>, <<"index.html">>, <<"a.txt">>, <<"sub">>, <<"sub", "index.html">>,
      <<"missing">>, <<"secret.txt">>,
      <<"..", "secret.txt">>, <<"..", "index.html">>,
      <<"sub", "..", "..", "secret.txt">>, <<"%2e%2e", "a.txt">>,
      <<".", "sub", "..", "a.txt">>, <<"..", "..", "sub">> }

\* "/" itself is the empty list of segments with the slash.
Targets == { t \in [segs : SegLists, slash : BOOLEAN] : t.segs = <<>> => t.slash }

\* shape: "ok" (method target [version]), "nopath" (the method alone),
\* "extra" (one word too many), "toolong" (a line over 65536 bytes),
\* "empty" (a blank line or an immediate end of stream).
\* ims: no If-Modified-Since header ("none"), one earlier than the file's
\* modification time ("old"), one at or after it ("new").
FewTargets ==
    { t \in Targets : t.segs \in {<<>>, <<"a.txt">>, <<"missing">>}
                      /\ (t.slash <=> t.segs = <<>>) }

CachedTargets ==
    { t \in Targets : t.segs \in {<<"a.txt">>, <<"index.html">>, <<"sub">>,
                                   <<"missing">>, <<"..", "index.html">>} }

WellFormed ==
    [method : {"GET"}, target : Targets, shape : {"ok"},
     version : {"", "HTTP/1.0", "HTTP/1.1"}, ims : {"none"}]
    \cup
    [method : Methods \ {"GET"}, target : FewTargets, shape : {"ok"},
     version : {"", "HTTP/1.0", "HTTP/1.1"}, ims : {"none"}]

Conditional ==
    [method : {"GET"}, target : CachedTargets, shape : {"ok"},
     version : {"HTTP/1.1"}, ims : {"old", "new"}]

Malformed ==
    [method : {"GET", "OPTIONS"},
     target : {[segs |-> <<"a.txt">>, slash |-> FALSE],
               [segs |-> <<"missing">>, slash |-> FALSE]},
     shape : {"ok"}, version : {"HTTP/2.0", "HTTP/x"}, ims : {"none"}]
    \cup
    [method : {"GET", "OPTIONS"},
     target : {[segs |-> <<"a.txt">>, slash |-> FALSE]},
     shape : {"extra"}, version : {"", "HTTP/1.1"}, ims : {"none"}]
    \cup
    [method : {"GET", "OPTIONS"},
     target : {[segs |-> <<"a.txt">>, slash |-> FALSE]},
     shape : {"nopath", "toolong", "empty"}, version : {""}, ims : {"none"}]

Requests == WellFormed \cup Conditional \cup Malformed

\* ------------------------------------------------------------- responses
\* What the handler has written so far: status is the code of the status
\* line (0: no status line was written), headers the header lines in the
\* order written, body what follows them.  version is request_version.

ACAO == "Access-Control-Allow-Origin: *"
ACAM == "Access-Control-Allow-Methods: GET, POST, OPTIONS"
ACAH == "Access-Control-Allow-Headers: Content-Type"

NoBody == [kind |-> "empty", of |-> <<>>]
FileBody(path) == [kind |-> "file", of |-> Contents(path)]
ListingBody(path) == [kind |-> "listing", of |-> Contents(path)]
ErrorBody == [kind |-> "error", of |-> <<>>]

Fresh(version) ==
    [version |-> version, status |-> 0, headers |-> <<>>, body |-> NoBody,
     ended |-> FALSE]

\* handle_one_request returned without writing anything.
Nothing == Fresh("HTTP/0.9")

\* BaseHTTPRequestHandler.send_header: nothing is buffered for HTTP/0.9.
send_header(h, line) ==
    IF h.version = "HTTP/0.9" THEN h
    ELSE [h EXCEPT !.headers = Append(@, line)]

\* BaseHTTPRequestHandler.send_response: the status line, Server and Date.
send_response(h, code) ==
    send_header(send_header(
        IF h.version = "HTTP/0.9" THEN h ELSE [h EXCEPT !.status = code],
        "Server"), "Date")

\* BaseHTTPRequestHandler.end_headers: ends the header block and flushes it.
base_end_headers(h) == [h EXCEPT !.ended = TRUE]

\* end_headers with the inherited method called first: the block is already
\* flushed when the CORS headers are added, and they are lost.
end_headers_late(h) == base_end_headers(h)

\* Handler.end_headers: the three CORS headers, then the inherited one.
end_headers(h) ==
    base_end_headers(send_header(send_header(send_header(h, ACAO), ACAM), ACAH))

\* send_error ending its headers with the inherited end_headers: the CORS
\* headers only on the responses of do_GET and do_HEAD.
send_error_plain(h, code, command) ==
    LET h1 == send_header(send_response(h, code), "Connection: close")
        withBody == code >= 200 /\ code \notin {204, 205, 304}
        h2 == IF withBody
              THEN send_header(send_header(h1, "Content-Type"), "Content-Length")
              ELSE h1
        h3 == base_end_headers(h2)
    IN  IF command # "HEAD" /\ withBody THEN [h3 EXCEPT !.body = ErrorBody]
        ELSE h3

\* BaseHTTPRequestHandler.send_error
send_error(h, code, command) ==
    LET h1 == send_header(send_response(h, code), "Connection: close")
        withBody == code >= 200 /\ code \notin {204, 205, 304}
        h2 == IF withBody
              THEN send_header(send_header(h1, "Content-Type"), "Content-Length")
              ELSE h1
        h3 == end_headers(h2)
    IN  IF command # "HEAD" /\ withBody THEN [h3 EXCEPT !.body = ErrorBody]
        ELSE h3

\* ------------------------------------------------------- path translation

\* urllib.parse.unquote on one segment.
unquote(w) == IF w = "%2e%2e" THEN ".." ELSE IF w = "%2e" THEN "." ELSE w

\* posixpath.normpath of "/" + segments: "" and "." are dropped, ".." removes
\* the component before it, and ".." at the root is dropped.
RECURSIVE normpath(_, _)
normpath(done, rest) ==
    IF rest = <<>> THEN done
    ELSE LET w == Head(rest) IN
         IF w \in {"", "."} THEN normpath(done, Tail(rest))
         ELSE IF w = ".."
              THEN normpath(IF done = <<>> THEN <<>>
                            ELSE SubSeq(done, 1, Len(done) - 1), Tail(rest))
              ELSE normpath(Append(done, w), Tail(rest))

\* The loop of translate_path: os.curdir and os.pardir words are skipped,
\* every other word is joined to the path.
RECURSIVE JoinWords(_, _)
JoinWords(path, words) ==
    IF words = <<>> THEN path
    ELSE IF Head(words) \in {".", ".."} THEN JoinWords(path, Tail(words))
    ELSE JoinWords(Append(path, Head(words)), Tail(words))

\* translate_path without directory=DIRECTORY: the handler serves the
\* process's working directory, here "/".
translate_path_cwd(target) ==
    LET words == normpath(<<>>, [i \in 1..Len(target.segs) |-> unquote(target.segs[i])])
    IN  [segs |-> JoinWords(<<>>, words), slash |-> target.slash]

\* translate_path joining the decoded target to the directory as it stands.
translate_path_naive(target) ==
    [segs |-> DIRECTORY \o [i \in 1..Len(target.segs) |-> unquote(target.segs[i])],
     slash |-> target.slash]

\* SimpleHTTPRequestHandler.translate_path, with directory=DIRECTORY
translate_path(target) ==
    LET words == normpath(<<>>, [i \in 1..Len(target.segs) |-> unquote(target.segs[i])])
    IN  [segs |-> JoinWords(DIRECTORY, words), slash |-> target.slash]

\* ---------------------------------------------------------- the handler

\* SimpleHTTPRequestHandler.list_directory (os.listdir succeeds on every
\* directory of FileSystems)
list_directory(h, path, command) ==
    LET h1 == end_headers(send_header(send_header(send_response(h, 200),
                  "Content-type"), "Content-Length"))
    IN  IF command = "GET" THEN [h1 EXCEPT !.body = ListingBody(path)] ELSE h1

\* An index lookup that never finds one: every directory is listed.
IndexOf_none(f, path) == <<>>

\* The first of index.html, index.htm that os.path.isfile finds in path.
IndexOf(f, path) ==
    IF isfile(f, path \o <<"index.html">>) THEN path \o <<"index.html">>
    ELSE IF isfile(f, path \o <<"index.htm">>) THEN path \o <<"index.htm">>
    ELSE <<>>

\* SimpleHTTPRequestHandler.send_head followed by do_GET's copyfile (GET) or
\* nothing (HEAD).
send_head(h, req, f) ==
    LET tp == translate_path(req.target)
        dir == isdir(f, tp.segs)
        index == IF dir THEN IndexOf(f, tp.segs) ELSE <<>>
        path == IF dir /\ index # <<>> THEN index ELSE tp.segs
        \* path.endswith("/"): only a path that was not replaced by an index
        slash == tp.slash /\ ~(dir /\ index # <<>>)
    IN  IF dir /\ ~req.target.slash
        THEN end_headers(send_header(send_header(send_response(h, 301),
                 "Location"), "Content-Length"))
        ELSE IF dir /\ index = <<>>
        THEN list_directory(h, tp.segs, req.method)
        ELSE IF slash \/ ~CanOpen(f, path)
        THEN send_error(h, 404, req.method)
        ELSE IF req.ims = "new"
        THEN end_headers(send_response(h, 304))
        ELSE LET h1 == end_headers(send_header(send_header(send_header(
                           send_response(h, 200),
                           "Content-type"), "Content-Length"), "Last-Modified"))
             IN  IF req.method = "GET" THEN [h1 EXCEPT !.body = FileBody(path)]
                 ELSE h1

\* The words of the request line, as requestline.split() gives them.
Words(req) ==
    <<req.method>>
    \o (IF req.shape = "nopath" THEN <<>> ELSE <<"target">>)
    \o (IF req.shape = "extra" THEN <<"junk">> ELSE <<>>)
    \o (IF req.version = "" THEN <<>> ELSE <<req.version>>)

\* version.startswith('HTTP/') with a numeric major.minor after it
VersionSyntaxOk(w) == w \in {"HTTP/1.0", "HTTP/1.1", "HTTP/2.0"}

\* BaseHTTPRequestHandler.parse_request: [ok, h], h the handler after any
\* error it sent.  request_version is HTTP/0.9 until a version is accepted,
\* and command is still None (not HEAD) whenever parse_request sends an error.
parse_request(req) ==
    LET words == Words(req)
        n == Len(words)
        h0 == Fresh("HTTP/0.9")
    IN  IF n >= 3 /\ ~VersionSyntaxOk(words[n])
        THEN [ok |-> FALSE, h |-> send_error(h0, 400, "")]
        ELSE IF n >= 3 /\ words[n] = "HTTP/2.0"
        THEN [ok |-> FALSE, h |-> send_error(h0, 505, "")]
        ELSE LET h1 == IF n >= 3 THEN Fresh(words[n]) ELSE h0 IN
             IF ~(2 <= n /\ n <= 3)
             THEN [ok |-> FALSE, h |-> send_error(h1, 400, "")]
             ELSE IF n = 2 /\ req.method # "GET"
             THEN [ok |-> FALSE, h |-> send_error(h1, 400, "")]
             ELSE [ok |-> TRUE, h |-> h1]

\* The do_ methods SimpleHTTPRequestHandler defines; Handler adds none.
HasMethod(command) == command \in {"GET", "HEAD"}

\* BaseHTTPRequestHandler.handle_one_request
handle_one_request(req, f) ==
    IF req.shape = "toolong" THEN send_error(Fresh(""), 414, "")
    ELSE IF req.shape = "empty" THEN Nothing
    ELSE LET p == parse_request(req) IN
         IF ~p.ok THEN p.h
         ELSE IF ~HasMethod(req.method)
         THEN send_error(p.h, 501, req.method)
         ELSE send_head(p.h, req, f)

\* What the client receives.
Response(h) == [status |-> h.status, headers |-> h.headers, body |-> h.body]

\* ------------------------------------------------------------ the server

VARIABLES
    pc,          \* main's position: "start", "Listening", "Handling", "exited"
    exitStatus,  \* the process's exit status; -1 while it runs
    config,      \* the module globals PORT and DIRECTORY
    fs,          \* the file system
    binds,       \* how many times the listening socket was bound
    arrived,     \* connections clients have opened so far (ids 1..arrived)
    backlog,     \* connections in the listen queue, oldest first
    active,      \* connections accepted and not yet shut down
    served,      \* requests handled to completion
    errorsSeen,  \* of those, the ones answered with a 4xx or 5xx response
    last,        \* the last request handled and the response it got
    interrupted, \* an interrupt signal was delivered
    bindFailed   \* the bind of the listening socket failed

vars == <<pc, exitStatus, config, fs, binds, arrived, backlog, active,
          served, errorsSeen, last, interrupted, bindFailed>>

NoRequest ==
    [method |-> "", target |-> [segs |-> <<>>, slash |-> TRUE],
     shape |-> "empty", version |-> "", ims |-> "none"]

Init ==
    /\ pc = "start"
    /\ exitStatus = -1
    /\ config = [port |-> PORT, directory |-> DIRECTORY]
    /\ fs \in FileSystems
    /\ binds = 0
    /\ arrived = 0
    /\ backlog = <<>>
    /\ active = {}
    /\ served = 0
    /\ errorsSeen = 0
    /\ last = [req |-> NoRequest, resp |-> Response(Nothing)]
    /\ interrupted = FALSE
    /\ bindFailed = FALSE

\* socketserver.TCPServer(("", PORT), Handler) binds and listens.
BindOk ==
    /\ pc = "start"
    /\ pc' = "Listening"
    /\ binds' = binds + 1
    /\ UNCHANGED <<exitStatus, config, fs, arrived, backlog, active, served,
                   errorsSeen, last, interrupted, bindFailed>>

\* A main that catches the OSError and tries the bind again.
OnBindError_retry == [pc |-> "start", exitStatus |-> -1]

\* Where main goes when the constructor raises OSError: nothing catches it,
\* so the interpreter prints the traceback and exits with status 1.
OnBindError == [pc |-> "exited", exitStatus |-> 1]

\* The bind fails (port in use, no permission).
BindFail ==
    /\ pc = "start"
    /\ binds' = binds + 1
    /\ pc' = OnBindError.pc
    /\ exitStatus' = OnBindError.exitStatus
    /\ bindFailed' = TRUE
    /\ UNCHANGED <<config, fs, arrived, backlog, active, served, errorsSeen,
                   last, interrupted>>

\* A client connects; the kernel queues the connection.
Arrive ==
    /\ pc \in {"Listening", "Handling"}
    /\ arrived < MaxConns
    /\ Len(backlog) < MaxBacklog
    /\ arrived' = arrived + 1
    /\ backlog' = Append(backlog, arrived + 1)
    /\ UNCHANGED <<pc, exitStatus, config, fs, binds, active, served,
                   errorsSeen, last, interrupted, bindFailed>>

\* A ThreadingTCPServer: the loop accepts while a handler thread runs.
CanAccept_threaded == pc \in {"Listening", "Handling"}

\* TCPServer handles requests in serve_forever's own thread: the loop gets
\* back to select/accept only when process_request has returned.
CanAccept == pc = "Listening"

\* serve_forever: select reports the listening socket readable and
\* _handle_request_noblock accepts the connection (get_request).
Accept ==
    /\ CanAccept
    /\ backlog # <<>>
    /\ active' = active \cup {Head(backlog)}
    /\ backlog' = Tail(backlog)
    /\ pc' = "Handling"
    /\ UNCHANGED <<exitStatus, config, fs, binds, arrived, served, errorsSeen,
                   last, interrupted, bindFailed>>

IsError(resp) == resp.status >= 400 \/ resp.body.kind = "error"

\* An error response that ends the serve loop.
AfterRequest_fatal(resp) == IF IsError(resp) THEN "exited" ELSE "Listening"

\* Where serve_forever is after process_request returns: send_error raises
\* nothing, so whatever the response the loop goes on.
AfterRequest(resp) == "Listening"

\* process_request: finish_request constructs Handler, which reads one
\* request, answers it (protocol_version is HTTP/1.0: one request per
\* connection), and shutdown_request closes the connection.
Handle(c, req) ==
    LET resp == Response(handle_one_request(req, fs)) IN
    /\ pc = "Handling"
    /\ c \in active
    /\ last' = [req |-> req, resp |-> resp]
    /\ served' = served + 1
    /\ errorsSeen' = IF IsError(resp) THEN errorsSeen + 1 ELSE errorsSeen
    /\ active' = active \ {c}
    /\ pc' = IF active' = {} THEN AfterRequest(resp) ELSE pc
    /\ UNCHANGED <<exitStatus, config, fs, binds, arrived, backlog,
                   interrupted, bindFailed>>

\* How the process ends on KeyboardInterrupt: main does not catch it, the
\* with block closes the socket, and the interpreter, after the traceback,
\* kills itself with SIGINT (a shell reports 130).
OnInterrupt == 130

\* SIGINT while serve_forever runs: KeyboardInterrupt is raised in select or
\* in the handler.  It is not an Exception, so _handle_request_noblock shuts
\* the connection down and re-raises.
Interrupt ==
    /\ pc \in {"Listening", "Handling"}
    /\ interrupted' = TRUE
    /\ active' = {}
    /\ backlog' = <<>>
    /\ pc' = "exited"
    /\ exitStatus' = OnInterrupt
    /\ UNCHANGED <<config, fs, binds, arrived, served, errorsSeen, last,
                   bindFailed>>

Next ==
    \/ BindOk
    \/ BindFail
    \/ Arrive
    \/ Accept
    \/ \E c \in 1..MaxConns, req \in Requests : Handle(c, req)
    \/ Interrupt

Spec == Init /\ [][Next]_vars

\* ---------------------------------------------------------------- claims
\* The claims speak of the last request handled and the response it got.

Req == last.req
Resp == last.resp
\* The server wrote something back: a status line or a body.
Answered == served > 0 /\ (Resp.status # 0 \/ Resp.body # NoBody)

HasCORS(resp) ==
    \A line \in {ACAO, ACAM, ACAH} :
        \E i \in 1..Len(resp.headers) : resp.headers[i] = line

EndsWithCORS(resp) ==
    /\ Len(resp.headers) >= 3
    /\ SubSeq(resp.headers, Len(resp.headers) - 2, Len(resp.headers))
         = <<ACAO, ACAM, ACAH>>

Decoded(segs) == [i \in 1..Len(segs) |-> unquote(segs[i])]
\* Where the operating system finds root directory + request path.
UnderRoot(segs) == OsResolve(<<>>, DIRECTORY \o Decoded(segs))
ResolvesInside(segs) == IsPrefix(DIRECTORY, UnderRoot(segs))
\* Where the request path leads when the root directory is taken as "/".
ChrootPath(segs) == DIRECTORY \o OsResolve(<<>>, Decoded(segs))

\* A GET whose request line is method, target and an optional version.
PlainGet ==
    /\ served > 0
    /\ Req.method = "GET"
    /\ Req.shape = "ok"
    /\ Req.version \in {"", "HTTP/1.0", "HTTP/1.1"}
Http1Get == PlainGet /\ Req.version \in {"HTTP/1.0", "HTTP/1.1"}

ToReadableFile ==
    /\ ResolvesInside(Req.target.segs)
    /\ ~Req.target.slash
    /\ KindAt(fs, UnderRoot(Req.target.segs)) = "file"

ToNothing ==
    /\ ResolvesInside(Req.target.segs)
    /\ KindAt(fs, UnderRoot(Req.target.segs)) = "absent"

ToDirWithIndex ==
    /\ ResolvesInside(Req.target.segs)
    /\ KindAt(fs, UnderRoot(Req.target.segs)) = "dir"
    /\ KindAt(fs, UnderRoot(Req.target.segs) \o <<"index.html">>) = "file"

C4_MissingIs404WithCORS ==
    (PlainGet /\ ToNothing) => (Resp.status = 404 /\ HasCORS(Resp))

\* C4 amended: such a GET returns 404 with the three CORS headers when its
\* request line names HTTP/1.0 or HTTP/1.1; with an HTTP/0.9 request line it
\* returns the error page alone, with no status line and no headers.
C4_MissingByVersion ==
    (PlainGet /\ ToNothing) =>
        /\ Resp.body = ErrorBody
        /\ Req.version # "" => (Resp.status = 404 /\ HasCORS(Resp))
        /\ Req.version = "" => (Resp.status = 0 /\ Resp.headers = <<>>)

C4_Witness ==
    /\ Http1Get
    /\ Req.target = [segs |-> <<"missing">>, slash |-> FALSE]
    /\ Resp.status = 404
    /\ HasCORS(Resp)

\* C5 as stated: an OPTIONS request to any path gets a success response with
\* an empty body and the three CORS headers.
C5_OptionsSucceeds ==
    (served > 0 /\ Req.method = "OPTIONS" /\ Req.shape = "ok"
     /\ Req.version \in {"HTTP/1.0", "HTTP/1.1"}) =>
        /\ Resp.status >= 200 /\ Resp.status < 300
        /\ Resp.body = NoBody
        /\ HasCORS(Resp)

\* C6 as stated: a GET to a directory that contains an index.html, with or
\* without a trailing slash, returns 200 and the index.html.
C6_DirectoryServesIndex ==
    (Http1Get /\ ToDirWithIndex /\ Req.ims # "new") =>
        /\ Resp.status = 200
        /\ Resp.body = FileBody(UnderRoot(Req.target.segs) \o <<"index.html">>)

\* C6 amended: an HTTP/1.x GET, with no If-Modified-Since at or after the
\* index's modification time, to a directory that contains a readable
\* index.html returns 200 and the index.html when the path ends in a slash,
\* and a 301 redirect with no body when it does not.
C6_IndexOrRedirect ==
    (Http1Get /\ ToDirWithIndex /\ Req.ims # "new") =>
        /\ Req.target.slash =>
               /\ Resp.status = 200
               /\ Resp.body = FileBody(UnderRoot(Req.target.segs) \o <<"index.html">>)
        /\ ~Req.target.slash =>
               /\ Resp.status = 301
               /\ Resp.body = NoBody
               /\ \E i \in 1..Len(Resp.headers) : Resp.headers[i] = "Location"

C6_Witness ==
    /\ Http1Get
    /\ Req.target = [segs |-> <<"sub">>, slash |-> TRUE]
    /\ Resp.status = 200
    /\ Resp.body = FileBody(DIRECTORY \o <<"sub", "index.html">>)

\* C7 as stated: after an interrupt signal during the serve loop the server
\* has stopped accepting connections and the process has exited with
\* status 0.
C7_InterruptExitsZero ==
    interrupted => (pc = "exited" /\ active = {} /\ exitStatus = 0)

\* C8: once the bind has failed the process has exited with a non-zero
\* status, the bind was tried once, the serve loop was never entered and no
\* connection was accepted or request handled.
C8_BindFailureFatal ==
    bindFailed =>
        /\ pc = "exited"
        /\ exitStatus > 0
        /\ binds = 1
        /\ arrived = 0 /\ active = {} /\ served = 0

C8_Witness == bindFailed /\ pc = "exited" /\ exitStatus = 1

\* C9: main is at start, Listening, Handling or exited; at most one
\* connection is being handled, exactly one in Handling and none in
\* Listening, so a connection is accepted only from Listening.
C9_OneAtATime ==
    /\ pc \in {"start", "Listening", "Handling", "exited"}
    /\ Cardinality(active) <= 1
    /\ pc = "Handling" <=> Cardinality(active) = 1

C9_Witness == pc = "Handling" /\ Cardinality(active) = 1 /\ backlog # <<>>

\* C10: error responses are not fatal.  After any number of them the
\* configuration is unchanged, the process has not exited unless it was
\* interrupted, it is in Listening whenever no connection is being handled,
\* and a valid request that follows is served.
C10_ErrorsNotFatal ==
    errorsSeen > 0 =>
        /\ config = [port |-> PORT, directory |-> DIRECTORY]
        /\ ~interrupted =>
             /\ exitStatus = -1
             /\ pc \in {"Listening", "Handling"}
             /\ active = {} => pc = "Listening"
        /\ (Http1Get /\ ToReadableFile /\ Req.ims # "new") =>
             /\ Resp.status = 200
             /\ Resp.body = FileBody(UnderRoot(Req.target.segs))

C10_Witness ==
    /\ errorsSeen >= 1
    /\ pc = "Listening"
    /\ Http1Get /\ ToReadableFile
    /\ Resp.status = 200
    /\ Resp.body.kind = "file"

====
